---- MODULE Spec2Model ----
(***************************************************************************)
(* ERV / LTR presence pipeline.                                            *)
(*                                                                         *)
(*   filter_maf.py          process_chr(chrom): streams data/raw/maf/      *)
(*                          chrN.maf.gz and writes the blocks that overlap *)
(*                          a margin-expanded ERVmap.bed interval to       *)
(*                          data/processed/maf_filtered/chrN.ERV.maf.gz.   *)
(*   check_erv_presence.py  scans the filtered files of every chromosome   *)
(*                          that has LTR regions, accumulates per          *)
(*                          (region, species) the number of aligned        *)
(*                          non-gap bases, and writes ltr_presence.csv.    *)
(*                                                                         *)
(* A MAF row is a record [species, start, size, seq]: species is the       *)
(* dotted prefix of the row's identifier ("hg38.chr1" -> "hg38"), start    *)
(* and size are the row's annotations, seq its alignment string.  A block  *)
(* is a sequence of rows of one length; a file is a sequence of blocks.    *)
(***************************************************************************)
EXTENDS Integers, Sequences, FiniteSets, TLC

VARIABLES
    maf_raw,          \* data/raw/maf: chrom -> [exists, blocks, closed] (closed FALSE: a truncated gzip)
    intervals_by_chr, \* filter_maf.py: chrom -> set of expanded [start, end] (absent key = {})
    fstat,            \* filter_maf.py: chrom -> state of the process_chr(chrom) run
    fpos,             \* filter_maf.py: chrom -> index of the next block of the reader
    maf_filtered,     \* data/processed/maf_filtered: chrom -> [exists, blocks, closed]
    ltr_regions,      \* check_erv_presence.py: chrom -> set of intervals [begin, end, data]
    chroms,           \* check_erv_presence.py: the keys of ltr_regions, in iteration order
    pc,               \* check_erv_presence.py: position of the script
    ci,               \* check_erv_presence.py: index in chroms of the current chromosome
    bi,               \* check_erv_presence.py: index of the next alignment of the open handle (0: no handle)
    agg_results,      \* check_erv_presence.py: key -> aligned bases (defaultdict(int))
    ltr_lengths,      \* check_erv_presence.py: region identity -> length
    warned,           \* check_erv_presence.py: chromosomes reported by [WARN] Missing
    out_file          \* data/processed/ltr_presence.csv: [exists, records]

vars == <<maf_raw, intervals_by_chr, fstat, fpos, maf_filtered, ltr_regions, chroms,
          pc, ci, bi, agg_results, ltr_lengths, warned, out_file>>

filterVars == <<maf_raw, intervals_by_chr, fstat, fpos>>
inputVars == <<ltr_regions, chroms>>

-----------------------------------------------------------------------------
(* Bounds of the model.                                                    *)

\* alignment columns of a block
MaxCols == 2
\* blocks of the alignment files of one run, both chromosomes together
MaxBlocks == 2

\* filter_maf.py: MARGINS = 2000
MARGINS == 2000

\* a path at which there is no file
NoFile == [exists |-> FALSE, blocks |-> <<>>, closed |-> FALSE]
\* ltr_presence.csv not written
NoTable == [exists |-> FALSE, records |-> {}]
\* aln_to_genome's None; genome positions are never negative
NoPos == -1
Gap == "-"
Anchor == "hg38"

-----------------------------------------------------------------------------
(* Small helpers.                                                          *)

\* python: sum(1 for b in s if b != "-")
RECURSIVE NonGapCount(_)
NonGapCount(s) ==
    IF s = <<>> THEN 0
    ELSE (IF Head(s) # Gap THEN 1 ELSE 0) + NonGapCount(Tail(s))

\* dict: d[key] = v
Put(d, key, v) ==
    IF key \in DOMAIN d THEN [d EXCEPT ![key] = v] ELSE d @@ (key :> v)

\* a slip: agg_results[key] = aligned_bases
Overwrite(d, key, n) == Put(d, key, n)

\* a slip: if aligned_bases: agg_results[key] += aligned_bases
AccumulatePositive(d, key, n) ==
    IF n = 0 THEN d
    ELSE IF key \in DOMAIN d THEN [d EXCEPT ![key] = @ + n] ELSE d @@ (key :> n)

\* defaultdict(int): d[key] += n (a missing key starts at int() = 0)
Accumulate(d, key, n) ==
    IF key \in DOMAIN d THEN [d EXCEPT ![key] = @ + n] ELSE d @@ (key :> n)

-----------------------------------------------------------------------------
(* check_erv_presence.py, the body of the loop over the alignments.        *)

\* intervaltree: IntervalTree.overlap(begin, end); a null query matches nothing
Overlap(tree, begin, end) ==
    IF begin >= end THEN {}
    ELSE {iv \in tree : iv.begin < end /\ iv.end > begin}

\* next((r for r in alignment if r.id.startswith("hg38.")), None):
\* the index of the first row of the anchor species, 0 for None
RECURSIVE FirstAnchorFrom(_, _)
FirstAnchorFrom(alignment, i) ==
    IF i > Len(alignment) THEN 0
    ELSE IF alignment[i].species = Anchor THEN i
    ELSE FirstAnchorFrom(alignment, i + 1)

Human_seq(alignment) == FirstAnchorFrom(alignment, 1)

\* a slip: the counter advances on gap columns too
RECURSIVE WalkCountingGaps(_, _, _, _)
WalkCountingGaps(seq, i, gpos, acc) ==
    IF i > Len(seq) THEN <<acc, gpos>>
    ELSE IF seq[i] # Gap THEN WalkCountingGaps(seq, i + 1, gpos + 1, Append(acc, gpos))
    ELSE WalkCountingGaps(seq, i + 1, gpos + 1, Append(acc, NoPos))

\* lines 79-86: the walk over str(human_seq.seq) from column i with the
\* running counter gpos; the result is <<aln_to_genome, final gpos>>
RECURSIVE WalkFrom(_, _, _, _)
WalkFrom(seq, i, gpos, acc) ==
    IF i > Len(seq) THEN <<acc, gpos>>
    ELSE IF seq[i] # Gap THEN WalkFrom(seq, i + 1, gpos + 1, Append(acc, gpos))
    ELSE WalkFrom(seq, i + 1, gpos, Append(acc, NoPos))

Aln_to_genome(seq, human_start) == WalkFrom(seq, 1, human_start, <<>>)[1]

\* the value of gpos when the walk ends
Final_gpos(seq, human_start) == WalkFrom(seq, 1, human_start, <<>>)[2]

\* a slip: the region's end taken as inclusive
InLtrInclusive(g, ov) == g # NoPos /\ ov.begin <= g /\ g <= ov.end

\* lines 89-92: the condition of the comprehension
InLtr(g, ov) == g # NoPos /\ ov.begin <= g /\ g < ov.end

\* lines 89-92: the indices, in increasing order (1-based here)
RECURSIVE IndicesFrom(_, _, _)
IndicesFrom(a2g, i, ov) ==
    IF i > Len(a2g) THEN <<>>
    ELSE (IF InLtr(a2g[i], ov) THEN <<i>> ELSE <<>>) \o IndicesFrom(a2g, i + 1, ov)

Ltr_indices(a2g, ov) == IndicesFrom(a2g, 1, ov)

\* line 101: "".join(rec.seq[i] for i in ltr_indices)
Subseq(seq, idx) == [k \in 1..Len(idx) |-> seq[idx[k]]]

\* a slip: the anchor's own row is counted like any other
SkipsNoRow(rec) == FALSE

\* line 99: the rows the inner loop does not count
IsSkippedRow(rec) == rec.species = Anchor

\* lines 97-104: the loop over the rows of the alignment from row i
RECURSIVE RowsFrom(_, _, _, _, _, _)
RowsFrom(agg, alignment, i, chrom, ov, idx) ==
    IF i > Len(alignment) THEN agg
    ELSE LET rec == alignment[i]
             key == <<chrom, ov.begin, ov.end, ov.data, rec.species>>
             aligned_bases == NonGapCount(Subseq(rec.seq, idx))
         IN  IF IsSkippedRow(rec)
             THEN RowsFrom(agg, alignment, i + 1, chrom, ov, idx)
             ELSE RowsFrom(Accumulate(agg, key, aligned_bases), alignment, i + 1, chrom, ov, idx)

\* a slip: the empty column set is not skipped
NeverEmpty(idx) == FALSE

\* line 93: if not ltr_indices: continue
NoColumns(idx) == idx = <<>>

\* a slip: the length is recorded after the empty-column check, beside the
\* accumulation, and only when a row added bases
OneOverlapLengthLate(st, alignment, h, chrom, ov) ==
    LET idx == Ltr_indices(Aln_to_genome(alignment[h].seq, alignment[h].start), ov)
        agg == IF NoColumns(idx) THEN st.agg ELSE RowsFrom(st.agg, alignment, 1, chrom, ov, idx)
        rid == <<chrom, ov.begin, ov.end, ov.data>>
        added == \E key \in DOMAIN agg :
                    /\ <<key[1], key[2], key[3], key[4]>> = rid
                    /\ agg[key] > 0
    IN  [agg |-> agg,
         len |-> IF added THEN Put(st.len, rid, ov.end - ov.begin) ELSE st.len]

\* lines 74-104: the body of the loop over the overlaps, for one interval ov;
\* st is [agg, len], the two dictionaries
OneOverlap(st, alignment, h, chrom, ov) ==
    LET lens == Put(st.len, <<chrom, ov.begin, ov.end, ov.data>>, ov.end - ov.begin)
        idx == Ltr_indices(Aln_to_genome(alignment[h].seq, alignment[h].start), ov)
    IN  IF NoColumns(idx) THEN [agg |-> st.agg, len |-> lens]
        ELSE [agg |-> RowsFrom(st.agg, alignment, 1, chrom, ov, idx), len |-> lens]

\* line 73: the loop over the set the overlap query returns
RECURSIVE Overlaps(_, _, _, _, _)
Overlaps(st, alignment, h, chrom, ovs) ==
    IF ovs = {} THEN st
    ELSE LET ov == CHOOSE x \in ovs : TRUE
         IN  Overlaps(OneOverlap(st, alignment, h, chrom, ov), alignment, h, chrom, ovs \ {ov})

\* lines 64-104: the body of the loop over the alignments of chrom
ProcessAlignment(st, alignment, chrom, tree) ==
    LET h == Human_seq(alignment)
    IN  IF h = 0 THEN st
        ELSE LET human_start == alignment[h].start
                 human_end == human_start + alignment[h].size
             IN  Overlaps(st, alignment, h, chrom, Overlap(tree, human_start, human_end))

\* line 114 and line 123: round(aligned_bases / ltr_len if ltr_len > 0 else 0, 3),
\* in thousandths (the nearest integer to 1000 * a / n)
Coverage(aligned_bases, ltr_len) ==
    IF ltr_len > 0 THEN (2000 * aligned_bases + ltr_len) \div (2 * ltr_len) ELSE 0

\* lines 110-124: the records of the output table
Records(agg, lens) ==
    {LET rid == <<key[1], key[2], key[3], key[4]>>
         ltr_len == IF rid \in DOMAIN lens THEN lens[rid] ELSE 0
     IN  [chrom |-> key[1], start |-> key[2], end |-> key[3], ltr |-> key[4],
          species |-> key[5], aligned_bases |-> agg[key], ltr_len |-> ltr_len,
          coverage |-> Coverage(agg[key], ltr_len)]
     : key \in DOMAIN agg}

\* lines 63-104: the loop over the alignments of one file, from alignment i
RECURSIVE ScanBlocks(_, _, _, _, _)
ScanBlocks(st, blocks, i, chrom, tree) ==
    IF i > Len(blocks) THEN st
    ELSE ScanBlocks(ProcessAlignment(st, blocks[i], chrom, tree), blocks, i + 1, chrom, tree)

\* lines 55-104: the loop over the chromosomes of order, from position k;
\* a chromosome without a file is skipped
RECURSIVE ScanChroms(_, _, _, _, _)
ScanChroms(st, order, k, files, regions) ==
    IF k > Len(order) THEN st
    ELSE IF ~files[order[k]].exists THEN ScanChroms(st, order, k + 1, files, regions)
    ELSE ScanChroms(ScanBlocks(st, files[order[k]].blocks, 1, order[k], regions[order[k]]),
                    order, k + 1, files, regions)

-----------------------------------------------------------------------------
(* The inputs the model draws from.                                        *)

Chroms == {"1", "2"}
Species == {Anchor, "panTro5", "gorGor5"}

\* the loc string "chrN:start-end" of paired_ltr_results.txt
Loc(c, b, e) == <<"chr", c, b, e>>
Interval(c, b, e) == [begin |-> b, end |-> e, data |-> Loc(c, b, e)]

\* the LTR regions: two overlapping regions on chromosome 1, one on
\* chromosome 2
LtrRegions ==
    [c \in Chroms |-> IF c = "1" THEN {Interval("1", 100, 102), Interval("1", 101, 103)}
                      ELSE {Interval("2", 100, 102)}]

\* alignment strings of MaxCols columns: no gap, a gap in the first column,
\* a base in the first column only
FullSeq == [k \in 1..MaxCols |-> "A"]
GapFirst == [k \in 1..MaxCols |-> IF k = 1 THEN Gap ELSE "A"]
OneBase == [k \in 1..MaxCols |-> IF k = 1 THEN "A" ELSE Gap]

Row(sp, st, sz, sq) == [species |-> sp, start |-> st, size |-> sz, seq |-> sq]

\* a row that declares the size its alignment string has
WellFormedRow(r) == r.size = NonGapCount(r.seq)

\* anchor rows that declare the size their alignment string has, and two
\* malformed ones that declare the number of columns: one with a column
\* inside the regions, one whose declared span alone reaches a region
AnchorRows ==
    {Row(Anchor, st, NonGapCount(sq), sq) : st \in {99, 101}, sq \in {FullSeq, GapFirst, OneBase}}
AnchorRowsIn ==
    AnchorRows \cup {Row(Anchor, 101, MaxCols, GapFirst), Row(Anchor, 99, MaxCols, OneBase)}
OtherRows(sp) == {Row(sp, 7000, NonGapCount(sq), sq) : sq \in {FullSeq, GapFirst}}

\* the blocks of the filtered files the coverage scan is checked on: the
\* anchor first, no anchor, the anchor second, a species with two rows
CovPool ==
    {<<h, p>> : h \in AnchorRowsIn, p \in OtherRows("panTro5")}
    \cup {<<p>> : p \in OtherRows("panTro5")}
    \cup {<<Row("panTro5", 7000, MaxCols, FullSeq), h>> :
            h \in {r \in AnchorRowsIn : r.seq = FullSeq}}
    \cup {<<Row(Anchor, 101, MaxCols, FullSeq), p, p>> : p \in OtherRows("gorGor5")}

\* the ways to share at most MaxBlocks blocks between the two files
Splits == {x \in (0..MaxBlocks) \X (0..MaxBlocks) : x[1] + x[2] <= MaxBlocks}

\* a file of the blocks bs: a complete gzip file, or none when e is FALSE
\* (only a chromosome without blocks may have no file)
FileOf(bs, e) == IF e \/ bs # <<>> THEN [exists |-> TRUE, blocks |-> bs, closed |-> TRUE] ELSE NoFile

\* for chrom in ltr_regions: the chromosomes that have a region, in the
\* order the region list names them
KeysOf(regions) ==
    (IF regions["1"] = {} THEN <<>> ELSE <<"1">>) \o (IF regions["2"] = {} THEN <<>> ELSE <<"2">>)

EmptyDict == [k \in {} |-> 0]

-----------------------------------------------------------------------------
(* check_erv_presence.py as a state machine: one step per alignment.       *)

Chrom == chroms[ci]

\* the script started on filtered files written earlier
Init ==
    /\ maf_raw = [c \in Chroms |-> NoFile]
    /\ intervals_by_chr = [c \in Chroms |-> {}]
    /\ fstat = [c \in Chroms |-> "done"]
    /\ fpos = [c \in Chroms |-> 0]
    /\ \E x \in Splits : \E b1 \in [1..x[1] -> CovPool] : \E b2 \in [1..x[2] -> CovPool] :
       \E e1 \in {TRUE} \cup {x[1] # 0} : \E e2 \in {TRUE} \cup {x[2] # 0} :
          maf_filtered = [c \in Chroms |-> IF c = "1" THEN FileOf(b1, e1) ELSE FileOf(b2, e2)]
    /\ ltr_regions = LtrRegions
    /\ chroms = KeysOf(ltr_regions)
    /\ pc = "scan"
    /\ ci = 1
    /\ bi = 0
    /\ agg_results = EmptyDict
    /\ ltr_lengths = EmptyDict
    /\ warned = {}
    /\ out_file = NoTable

\* lines 55-59: the alignment file of the chromosome is missing
CovMissing ==
    /\ pc = "scan" /\ bi = 0 /\ ci <= Len(chroms)
    /\ ~maf_filtered[Chrom].exists
    /\ warned' = warned \cup {Chrom}
    /\ ci' = ci + 1
    /\ UNCHANGED <<filterVars, inputVars, maf_filtered, pc, bi, agg_results, ltr_lengths, out_file>>

\* lines 61-62: the file is opened
CovOpen ==
    /\ pc = "scan" /\ bi = 0 /\ ci <= Len(chroms)
    /\ maf_filtered[Chrom].exists
    /\ bi' = 1
    /\ UNCHANGED <<filterVars, inputVars, maf_filtered, pc, ci, agg_results, ltr_lengths, warned, out_file>>

\* lines 63-104: one alignment of the open file
CovAlignment ==
    /\ pc = "scan" /\ bi >= 1 /\ bi <= Len(maf_filtered[Chrom].blocks)
    /\ LET st == ProcessAlignment([agg |-> agg_results, len |-> ltr_lengths],
                                  maf_filtered[Chrom].blocks[bi], Chrom, ltr_regions[Chrom])
       IN  /\ agg_results' = st.agg
           /\ ltr_lengths' = st.len
    /\ bi' = bi + 1
    /\ UNCHANGED <<filterVars, inputVars, maf_filtered, pc, ci, warned, out_file>>

\* line 63: the parser reaches the end of an intact file
CovEndOfFile ==
    /\ pc = "scan" /\ bi >= 1 /\ bi = Len(maf_filtered[Chrom].blocks) + 1
    /\ maf_filtered[Chrom].closed
    /\ bi' = 0
    /\ ci' = ci + 1
    /\ UNCHANGED <<filterVars, inputVars, maf_filtered, pc, agg_results, ltr_lengths, warned, out_file>>

\* lines 110-127: the table is built and written
CovSummary ==
    /\ pc = "scan" /\ bi = 0 /\ ci = Len(chroms) + 1
    /\ out_file' = [exists |-> TRUE, records |-> Records(agg_results, ltr_lengths)]
    /\ pc' = "done"
    /\ UNCHANGED <<filterVars, inputVars, maf_filtered, ci, bi, agg_results, ltr_lengths, warned>>

Next ==
    \/ CovMissing
    \/ CovOpen
    \/ CovAlignment
    \/ CovEndOfFile
    \/ CovSummary

Spec == Init /\ [][Next]_vars

-----------------------------------------------------------------------------
(* filter_maf.py: process_chr(chrom), one run of the script per chromosome, *)
(* one step per block; then check_erv_presence.py on what the runs wrote.   *)

\* line 26: an ERVmap.bed line widened by the margin
Expanded(start, end) == [start |-> start - MARGINS, end |-> end + MARGINS]

\* bx.intervals: IntervalTree.find(start, end), the intervals with
\* interval.end > start and interval.start < end
Find(tree, start, end) == {iv \in tree : iv.end > start /\ iv.start < end}

\* line 42: comp = m.components[0]
Comp(m) == m[1]

\* lines 42-45: the block is written
Keeps(tree, m) ==
    LET comp == Comp(m)
        block_start == comp.start
        block_end == comp.start + comp.size
    IN  Find(tree, block_start, block_end) # {}

\* the ERVmap.bed intervals: one ERV on chromosome 1, one or none on chromosome 2
BedChoices ==
    { [c \in Chroms |-> IF c = "1" THEN {Expanded(100, 103)} ELSE t2] :
        t2 \in {{}, {Expanded(100, 103)}} }

\* the blocks of the raw files: an anchor row inside the ERV, inside the
\* margin only or outside it, before or after a row of another species that
\* itself lies inside or outside the expanded range; or no anchor row
RawAnchorRows == {Row(Anchor, st, MaxCols, FullSeq) : st \in {101, 2102, 2103}}
RawOtherRows == {Row("panTro5", st, MaxCols, FullSeq) : st \in {150, 7000}}
RawPool ==
    {<<h, p>> : h \in RawAnchorRows, p \in RawOtherRows}
    \cup {<<p, h>> : p \in RawOtherRows, h \in RawAnchorRows}
    \cup {<<p>> : p \in RawOtherRows}

\* a raw file of the blocks bs: a gzip file, complete (cl) or cut off after
\* them, or none when e is FALSE
RawFileOf(bs, e, cl) ==
    IF e \/ bs # <<>> THEN [exists |-> TRUE, blocks |-> bs, closed |-> cl] ELSE NoFile

\* nothing has run yet
InitPipeline ==
    /\ \E x \in Splits : \E b1 \in [1..x[1] -> RawPool] : \E b2 \in [1..x[2] -> RawPool] :
       \E e1 \in {TRUE} \cup {x[1] # 0} : \E e2 \in {TRUE} \cup {x[2] # 0} :
       \E cl1 \in BOOLEAN : \E cl2 \in BOOLEAN :
          maf_raw = [c \in Chroms |-> IF c = "1" THEN RawFileOf(b1, e1, cl1)
                                      ELSE RawFileOf(b2, e2, cl2)]
    /\ intervals_by_chr \in BedChoices
    /\ fstat = [c \in Chroms |-> "idle"]
    /\ fpos = [c \in Chroms |-> 0]
    /\ maf_filtered = [c \in Chroms |-> NoFile]
    /\ ltr_regions = LtrRegions
    /\ chroms = KeysOf(ltr_regions)
    /\ pc = "idle"
    /\ ci = 1
    /\ bi = 0
    /\ agg_results = EmptyDict
    /\ ltr_lengths = EmptyDict
    /\ warned = {}
    /\ out_file = NoTable

covVars == <<ltr_regions, chroms, pc, ci, bi, agg_results, ltr_lengths, warned, out_file>>

\* a run of filter_maf.py may start: the runs follow each other, before
\* check_erv_presence.py
MayStart(c) ==
    /\ pc = "idle"
    /\ fstat[c] = "idle"
    /\ \A d \in Chroms : fstat[d] # "open"

\* lines 32-35: no interval on the chromosome: return
FilterNoTree(c) ==
    /\ MayStart(c)
    /\ intervals_by_chr[c] = {}
    /\ fstat' = [fstat EXCEPT ![c] = "returned"]
    /\ UNCHANGED <<maf_raw, intervals_by_chr, fpos, maf_filtered, covVars>>

\* line 37: gzip.open(in_maf) raises FileNotFoundError, which nothing catches;
\* out_maf, opened after in_maf, is not created
FilterMissing(c) ==
    /\ MayStart(c)
    /\ intervals_by_chr[c] # {}
    /\ ~maf_raw[c].exists
    /\ fstat' = [fstat EXCEPT ![c] = "failed"]
    /\ UNCHANGED <<maf_raw, intervals_by_chr, fpos, maf_filtered, covVars>>

\* lines 37-39: both files are opened; out_maf is created empty
FilterOpen(c) ==
    /\ MayStart(c)
    /\ intervals_by_chr[c] # {}
    /\ maf_raw[c].exists
    /\ fstat' = [fstat EXCEPT ![c] = "open"]
    /\ fpos' = [fpos EXCEPT ![c] = 1]
    /\ maf_filtered' = [maf_filtered EXCEPT ![c] = [exists |-> TRUE, blocks |-> <<>>, closed |-> FALSE]]
    /\ UNCHANGED <<maf_raw, intervals_by_chr, covVars>>

\* lines 41-46: one block of the reader
FilterBlock(c) ==
    /\ fstat[c] = "open"
    /\ fpos[c] <= Len(maf_raw[c].blocks)
    /\ LET m == maf_raw[c].blocks[fpos[c]]
       IN  maf_filtered' =
              IF Keeps(intervals_by_chr[c], m)
              THEN [maf_filtered EXCEPT ![c].blocks = Append(@, m)]
              ELSE maf_filtered
    /\ fpos' = [fpos EXCEPT ![c] = @ + 1]
    /\ UNCHANGED <<maf_raw, intervals_by_chr, fstat, covVars>>

\* line 41 and the end of the with statement: the reader is exhausted and
\* both files are closed
FilterEnd(c) ==
    /\ fstat[c] = "open"
    /\ fpos[c] = Len(maf_raw[c].blocks) + 1
    /\ maf_raw[c].closed
    /\ fstat' = [fstat EXCEPT ![c] = "done"]
    /\ maf_filtered' = [maf_filtered EXCEPT ![c].closed = TRUE]
    /\ UNCHANGED <<maf_raw, intervals_by_chr, fpos, covVars>>

\* line 41: the input ends before its end-of-stream marker and the read raises
\* EOFError; leaving the with statement closes out_maf, which so becomes a
\* complete gzip file, and the exception ends the run
FilterReadError(c) ==
    /\ fstat[c] = "open"
    /\ fpos[c] = Len(maf_raw[c].blocks) + 1
    /\ ~maf_raw[c].closed
    /\ fstat' = [fstat EXCEPT ![c] = "failed"]
    /\ maf_filtered' = [maf_filtered EXCEPT ![c].closed = TRUE]
    /\ UNCHANGED <<maf_raw, intervals_by_chr, fpos, covVars>>

\* the process is killed during lines 41-46: out_maf keeps the blocks that
\* had reached the disk and has no end-of-stream marker
FilterKilled(c) ==
    /\ fstat[c] = "open"
    /\ \E k \in 0..Len(maf_filtered[c].blocks) :
          maf_filtered' = [maf_filtered EXCEPT ![c].blocks = SubSeq(@, 1, k)]
    /\ fstat' = [fstat EXCEPT ![c] = "killed"]
    /\ UNCHANGED <<maf_raw, intervals_by_chr, fpos, covVars>>

\* check_erv_presence.py is started (Step 1 has loaded ltr_regions)
CovStart ==
    /\ pc = "idle"
    /\ \A d \in Chroms : fstat[d] # "open"
    /\ pc' = "scan"
    /\ UNCHANGED <<filterVars, inputVars, maf_filtered, ci, bi, agg_results, ltr_lengths, warned, out_file>>

\* line 63: the file ends before its end-of-stream marker: gzip raises
\* EOFError, which nothing catches
CovTruncated ==
    /\ pc = "scan" /\ bi >= 1 /\ bi = Len(maf_filtered[Chrom].blocks) + 1
    /\ ~maf_filtered[Chrom].closed
    /\ pc' = "crashed"
    /\ UNCHANGED <<filterVars, inputVars, maf_filtered, ci, bi, agg_results, ltr_lengths, warned, out_file>>

\* the process is killed during lines 55-104
CovInterrupt ==
    /\ pc = "scan"
    /\ pc' = "crashed"
    /\ UNCHANGED <<filterVars, inputVars, maf_filtered, ci, bi, agg_results, ltr_lengths, warned, out_file>>

PipelineNext ==
    \/ \E c \in Chroms : FilterNoTree(c)
    \/ \E c \in Chroms : FilterMissing(c)
    \/ \E c \in Chroms : FilterOpen(c)
    \/ \E c \in Chroms : FilterBlock(c)
    \/ \E c \in Chroms : FilterEnd(c)
    \/ \E c \in Chroms : FilterReadError(c)
    \/ \E c \in Chroms : FilterKilled(c)
    \/ CovStart
    \/ CovMissing
    \/ CovOpen
    \/ CovAlignment
    \/ CovEndOfFile
    \/ CovTruncated
    \/ CovInterrupt
    \/ CovSummary

PipelineSpec == InitPipeline /\ [][PipelineNext]_vars

-----------------------------------------------------------------------------
(* Vocabulary of the properties: the quantities they speak of, defined     *)
(* without the loops of the script.                                        *)

\* the block's anchor row: the first row of the anchor species (0: none)
AnchorIndex(block) ==
    IF \E i \in 1..Len(block) : block[i].species = Anchor
    THEN CHOOSE i \in 1..Len(block) :
            /\ block[i].species = Anchor
            /\ \A j \in 1..(i - 1) : block[j].species # Anchor
    ELSE 0

\* the genome position of column i of a row that starts at start
PosOfColumn(seq, start, i) ==
    IF seq[i] = Gap THEN NoPos
    ELSE start + Cardinality({j \in 1..(i - 1) : seq[j] # Gap})

\* the columns of the block whose anchor position lies in [R.begin, R.end)
ColumnsIn(block, R) ==
    LET h == AnchorIndex(block)
    IN  IF h = 0 THEN {}
        ELSE {i \in 1..Len(block[h].seq) :
                LET g == PosOfColumn(block[h].seq, block[h].start, i)
                IN  g # NoPos /\ R.begin <= g /\ g < R.end}

\* the anchor row's reference span [start, start + size) overlaps R
SpanOverlaps(block, R) ==
    LET h == AnchorIndex(block)
    IN  /\ h # 0
        /\ block[h].start < R.end
        /\ R.begin < block[h].start + block[h].size

RECURSIVE SumTo(_, _)
SumTo(f, n) == IF n = 0 THEN 0 ELSE f[n] + SumTo(f, n - 1)

\* what one block adds for region R and species S
Contribution(block, R, S) ==
    IF ~SpanOverlaps(block, R) THEN 0
    ELSE SumTo([i \in 1..Len(block) |->
                   IF block[i].species = S /\ block[i].species # Anchor
                   THEN Cardinality({k \in ColumnsIn(block, R) : block[i].seq[k] # Gap})
                   ELSE 0], Len(block))

\* the blocks the scan of chromosome c reads
BlocksOf(c) == IF maf_filtered[c].exists THEN maf_filtered[c].blocks ELSE <<>>

ExpectedCount(c, R, S) ==
    SumTo([b \in 1..Len(BlocksOf(c)) |-> Contribution(BlocksOf(c)[b], R, S)], Len(BlocksOf(c)))

KeyOf(c, R, S) == <<c, R.begin, R.end, R.data, S>>
ScannedChroms == {chroms[k] : k \in 1..Len(chroms)}

-----------------------------------------------------------------------------
\* C1: after the full scan the count of every (chromosome, region, species)
\* key is the plain sum, over the blocks of the chromosome that have an anchor
\* row and overlap the region and over the rows of the species, of the columns
\* whose anchor position lies in the region and whose character is no gap; a
\* positive sum has its key, and there is no other key.
C1_PlainSum ==
    pc = "done" =>
        /\ \A c \in ScannedChroms : \A R \in ltr_regions[c] : \A S \in Species \ {Anchor} :
              /\ KeyOf(c, R, S) \in DOMAIN agg_results
                    => agg_results[KeyOf(c, R, S)] = ExpectedCount(c, R, S)
              /\ ExpectedCount(c, R, S) > 0 => KeyOf(c, R, S) \in DOMAIN agg_results
        /\ DOMAIN agg_results \subseteq
              {KeyOf(c, R, S) : c \in ScannedChroms, R \in ltr_regions["1"] \cup ltr_regions["2"],
                                S \in Species \ {Anchor}}

\* two blocks of chromosome 1 both added bases to one key, and the species
\* has no row in another block
C1_Witness ==
    /\ pc = "done"
    /\ \E R \in ltr_regions["1"] :
          /\ Len(BlocksOf("1")) = 2
          /\ Contribution(BlocksOf("1")[1], R, "panTro5") > 0
          /\ Contribution(BlocksOf("1")[2], R, "panTro5") > 0
          /\ agg_results[KeyOf("1", R, "panTro5")] >= 3

-----------------------------------------------------------------------------
\* the (chromosome, region, species) was touched: a block of the chromosome's
\* file has a row of S and a column whose anchor position lies in R
Touched(c, R, S) ==
    \E b \in 1..Len(BlocksOf(c)) :
        /\ \E i \in 1..Len(BlocksOf(c)[b]) : BlocksOf(c)[b][i].species = S
        /\ ColumnsIn(BlocksOf(c)[b], R) # {}

\* C2: a region R and species S that no scanned block touches (a row of S
\* together with a column whose anchor position falls in R) have no
\* accumulator key at any time and no record in the table: the pair is absent,
\* not present with 0.
C2_UntouchedAbsent ==
    \A c \in Chroms : \A R \in ltr_regions[c] : \A S \in Species :
        ~Touched(c, R, S) =>
            /\ KeyOf(c, R, S) \notin DOMAIN agg_results
            /\ \A r \in out_file.records :
                  <<r.chrom, r.start, r.end, r.ltr, r.species>> # KeyOf(c, R, S)

\* a block whose declared span overlaps R, with a row of panTro5 but no
\* column in R, was scanned and left no key, while another region got one
C2_Witness ==
    /\ pc = "done"
    /\ out_file.records # {}
    /\ \E R \in ltr_regions["1"] : \E b \in 1..Len(BlocksOf("1")) :
          /\ SpanOverlaps(BlocksOf("1")[b], R)
          /\ ColumnsIn(BlocksOf("1")[b], R) = {}
          /\ \E i \in 1..Len(BlocksOf("1")[b]) : BlocksOf("1")[b][i].species = "panTro5"
          /\ KeyOf("1", R, "panTro5") \notin DOMAIN agg_results

-----------------------------------------------------------------------------
\* a block with at most one row per species whose anchor row, if any,
\* declares the size its alignment string has
WellFormedBlock(block) ==
    /\ \A i, j \in 1..Len(block) : block[i].species = block[j].species => i = j
    /\ \A i \in 1..Len(block) : Len(block[i].seq) = Len(block[1].seq)
    /\ AnchorIndex(block) # 0 => WellFormedRow(block[AnchorIndex(block)])

\* two blocks whose anchor spans share a position
SpansMeet(b1, b2) ==
    LET h1 == AnchorIndex(b1)
        h2 == AnchorIndex(b2)
    IN  /\ h1 # 0 /\ h2 # 0
        /\ b1[h1].start < b2[h2].start + b2[h2].size
        /\ b2[h2].start < b1[h1].start + b1[h1].size

WellFormedInput ==
    \A c \in Chroms :
        /\ \A b \in 1..Len(BlocksOf(c)) : WellFormedBlock(BlocksOf(c)[b])
        /\ \A b1, b2 \in 1..Len(BlocksOf(c)) :
              b1 # b2 => ~SpansMeet(BlocksOf(c)[b1], BlocksOf(c)[b2])

\* C3: on well-formed input whose blocks do not overlap on the anchor, at
\* every point of the scan 0 <= aligned_bases <= region length for every key,
\* and every row of the table has 0 <= aligned_bases <= ltr_len and a
\* coverage in [0, 1].
C3_Bounded ==
    WellFormedInput =>
        /\ \A key \in DOMAIN agg_results :
              0 <= agg_results[key] /\ agg_results[key] <= key[3] - key[2]
        /\ \A r \in out_file.records :
              /\ 0 <= r.aligned_bases /\ r.aligned_bases <= r.ltr_len
              /\ r.ltr_len = r.end - r.start
              /\ 0 <= r.coverage /\ r.coverage <= 1000

\* two non-overlapping well-formed blocks filled a region completely
C3_Witness ==
    /\ WellFormedInput
    /\ pc = "done"
    /\ \E r \in out_file.records :
          /\ r.aligned_bases = r.ltr_len
          /\ r.chrom = "1"
          /\ \E R \in ltr_regions["1"] :
                /\ KeyOf("1", R, r.species) = <<r.chrom, r.start, r.end, r.ltr, r.species>>
                /\ Len(BlocksOf("1")) = 2
                /\ Contribution(BlocksOf("1")[1], R, r.species) > 0
                /\ Contribution(BlocksOf("1")[2], R, r.species) > 0

-----------------------------------------------------------------------------
\* C7: for every block the aggregator processes the walk over the anchor row
\* ends at start + size (the map has size non-null entries); a block for which
\* it does not is not accumulated.
C7_WalkEndsAtDeclaredSize ==
    [][(pc = "scan" /\ bi >= 1 /\ bi' = bi + 1) =>
          LET block == maf_filtered[Chrom].blocks[bi]
              h == Human_seq(block)
          IN  h # 0 =>
                \/ Final_gpos(block[h].seq, block[h].start) = block[h].start + block[h].size
                \/ agg_results' = agg_results]_vars

-----------------------------------------------------------------------------
Perms(n) == {p \in [1..n -> 1..n] : \A i, j \in 1..n : p[i] = p[j] => i = j}
Permute(seq, p) == [i \in 1..Len(seq) |-> seq[p[i]]]

\* C8: the final map and the set of records do not depend on the order of
\* accumulation: scanning the chromosomes in any order and the blocks of each
\* file in any order gives the counts and the records of the run.
C8_OrderIndependent ==
    pc = "done" =>
        \A o \in Perms(Len(chroms)) :
        \A p1 \in Perms(Len(BlocksOf("1"))) :
        \A p2 \in Perms(Len(BlocksOf("2"))) :
            LET files == [c \in Chroms |->
                            [maf_filtered[c] EXCEPT
                                !.blocks = Permute(@, IF c = "1" THEN p1 ELSE p2)]]
                st == ScanChroms([agg |-> EmptyDict, len |-> EmptyDict],
                                 Permute(chroms, o), 1, files, ltr_regions)
            IN  /\ st.agg = agg_results
                /\ Records(st.agg, st.len) = out_file.records

\* two blocks of one file added different amounts to one key, and both
\* chromosomes were scanned
C8_Witness ==
    /\ pc = "done"
    /\ Len(chroms) = 2
    /\ \E R \in ltr_regions["1"] :
          /\ Len(BlocksOf("1")) = 2
          /\ Contribution(BlocksOf("1")[1], R, "panTro5") > 0
          /\ Contribution(BlocksOf("1")[2], R, "panTro5") > 0
          /\ Contribution(BlocksOf("1")[1], R, "panTro5")
                # Contribution(BlocksOf("1")[2], R, "panTro5")

-----------------------------------------------------------------------------
\* the blocks the scan has processed so far, as <<chromosome, index>>
Processed ==
    {<<chroms[k], b>> : k \in 1..Len(chroms), b \in 1..MaxBlocks} \cap
    {x \in Chroms \X (1..MaxBlocks) :
        /\ x[2] <= Len(BlocksOf(x[1]))
        /\ \E k \in 1..Len(chroms) :
              /\ chroms[k] = x[1]
              /\ k < ci \/ (k = ci /\ x[2] < bi)}

\* C10: the map built from the anchor row of a processed block has one entry
\* per column; a gap column has no position and leaves the counter as it is;
\* the k-th base (from 0) has position start + k, so the positions start at
\* start and go up by exactly 1.
C10_CoordinateMap ==
    \A x \in Processed :
        LET block == BlocksOf(x[1])[x[2]]
            h == AnchorIndex(block)
        IN  h # 0 =>
              LET seq == block[h].seq
                  start == block[h].start
                  map == Aln_to_genome(seq, start)
                  bases == {i \in 1..Len(seq) : seq[i] # Gap}
              IN  /\ Len(map) = Len(seq)
                  /\ \A i \in 1..Len(seq) : seq[i] = Gap => map[i] = NoPos
                  /\ \A i \in bases : map[i] = start + Cardinality({j \in bases : j < i})
                  /\ \A i \in bases : (\A j \in bases : j >= i) => map[i] = start
                  /\ \A i, j \in bases :
                        (i < j /\ \A m \in bases : ~(i < m /\ m < j)) => map[j] = map[i] + 1
                  /\ Final_gpos(seq, start) = start + Cardinality(bases)

\* a processed block whose anchor row has a gap column before a base
C10_Witness ==
    \E x \in Processed :
        LET block == BlocksOf(x[1])[x[2]]
            h == AnchorIndex(block)
        IN  /\ h # 0
            /\ \E R \in ltr_regions[x[1]] : ColumnsIn(block, R) # {}
            /\ \E i, j \in 1..Len(block[h].seq) :
                  i < j /\ block[h].seq[i] = Gap /\ block[h].seq[j] # Gap

-----------------------------------------------------------------------------
\* the anchor row's span [start, start + size) half-open-overlaps an
\* expanded interval of the tree
AnchorOverlapsExpanded(tree, block) ==
    LET h == AnchorIndex(block)
    IN  /\ h # 0
        /\ \E iv \in tree :
              block[h].start < iv.end /\ iv.start < block[h].start + block[h].size

\* the subsequence of blocks, in order, that the anchor row keeps
RECURSIVE KeptByAnchor(_, _)
KeptByAnchor(tree, blocks) ==
    IF blocks = <<>> THEN <<>>
    ELSE (IF AnchorOverlapsExpanded(tree, Head(blocks)) THEN <<Head(blocks)>> ELSE <<>>)
         \o KeptByAnchor(tree, Tail(blocks))

\* C4: the filter's output for a chromosome is exactly the subsequence, in
\* file order and unmodified, of the input blocks whose anchor row's span
\* overlaps a margin-expanded region, whichever position the anchor row has in
\* the block; every other block is discarded.
C4_FilterByAnchorRow ==
    \A c \in Chroms :
        fstat[c] = "done" =>
            /\ maf_filtered[c].exists
            /\ maf_filtered[c].blocks = KeptByAnchor(intervals_by_chr[c], maf_raw[c].blocks)

-----------------------------------------------------------------------------
\* the keys of the accumulator that belong to chromosome c
KeysOfChrom(c) == {key \in DOMAIN agg_results : key[1] = c}

\* C5: a missing alignment source is reported and the chromosome skipped,
\* and the run does not abort, in the coverage stage (the chromosome is
\* warned about and adds no key, the scan goes on and the table holds the
\* other chromosomes' counts) and in the block-filtering stage (the run for
\* the chromosome does not end in an uncaught error).
C5_MissingSourceSkipped ==
    /\ \A c \in warned : ~maf_filtered[c].exists /\ KeysOfChrom(c) = {}
    /\ \A k \in 1..Len(chroms) :
          (k < ci /\ ~maf_filtered[chroms[k]].exists) => chroms[k] \in warned
    /\ pc = "done" =>
          \A c \in ScannedChroms : \A R \in ltr_regions[c] : \A S \in Species \ {Anchor} :
              ExpectedCount(c, R, S) > 0 =>
                  \E r \in out_file.records :
                      /\ <<r.chrom, r.start, r.end, r.ltr, r.species>> = KeyOf(c, R, S)
                      /\ r.aligned_bases = ExpectedCount(c, R, S)
    /\ \A c \in Chroms : ~maf_raw[c].exists => fstat[c] # "failed"

-----------------------------------------------------------------------------
\* C6: a block without an anchor row is skipped silently: the coverage scan
\* leaves both dictionaries unchanged, raises no error and goes on to the next
\* block, and the filter does not take another row for the anchor, so it does
\* not write the block.
C6_NoAnchorSkipped ==
    [][/\ (pc = "scan" /\ bi >= 1 /\ bi' = bi + 1
            /\ AnchorIndex(maf_filtered[Chrom].blocks[bi]) = 0)
          => /\ agg_results' = agg_results
             /\ ltr_lengths' = ltr_lengths
             /\ pc' = "scan"
       /\ \A c \in Chroms :
            (fstat[c] = "open" /\ fpos'[c] = fpos[c] + 1
                /\ AnchorIndex(maf_raw[c].blocks[fpos[c]]) = 0)
            => maf_filtered'[c] = maf_filtered[c]]_vars

-----------------------------------------------------------------------------
\* the scan of chromosome c by filter_maf.py was cut short
\* after it had read a block
FilterCutShort(c) == fstat[c] \in {"failed", "killed"} /\ fpos[c] >= 2

\* C9: a scan interrupted part-way publishes nothing that can be taken for a
\* complete result: the filtered file of a chromosome whose filter run was cut
\* short is absent or lacks its end-of-stream marker, and a coverage run that
\* was cut short leaves no table.
C9_NoSilentPartial ==
    /\ \A c \in Chroms :
          FilterCutShort(c) => ~(maf_filtered[c].exists /\ maf_filtered[c].closed)
    /\ pc = "crashed" => ~out_file.exists

-----------------------------------------------------------------------------
\* block has a row of species S that is all gaps at the columns of R
AllGapRow(block, R, S) ==
    \E i \in 1..Len(block) :
        /\ block[i].species = S
        /\ \A k \in ColumnsIn(block, R) : block[i].seq[k] = Gap

-----------------------------------------------------------------------------
\* the region identity of an accumulator key
RegionOf(key) == <<key[1], key[2], key[3], key[4]>>

\* C12: at every point of the scan every key of the accumulator has its
\* region identity in the length cache, with the value end - begin > 0; so
\* every record of the table has ltr_len = end - start > 0, and neither the
\* length 0 of a region never recorded nor the coverage 0 of the division
\* guard is taken for it.
C12_LengthRecorded ==
    /\ \A key \in DOMAIN agg_results :
          /\ RegionOf(key) \in DOMAIN ltr_lengths
          /\ ltr_lengths[RegionOf(key)] = key[3] - key[2]
          /\ ltr_lengths[RegionOf(key)] > 0
    /\ \A r \in out_file.records :
          /\ r.ltr_len = r.end - r.start
          /\ r.ltr_len > 0
          /\ r.coverage = Coverage(r.aligned_bases, r.end - r.start)

\* the table is written with a record of 0 aligned bases, and the cache
\* holds the length of a region whose column set was empty in the only
\* block that reached it, so that it has no key
C12_Witness ==
    /\ pc = "done"
    /\ \E r \in out_file.records : r.aligned_bases = 0
    /\ \E rid \in DOMAIN ltr_lengths :
          \A key \in DOMAIN agg_results : RegionOf(key) # rid

====
